---- MODULE Spec2Model ----
(***************************************************************************)
(* A model of scrape.py: discovery of the store URLs from the listing      *)
(* page, one fetch-then-extract task per URL on a thread pool, collection  *)
(* of the results in completion order, the sort by name and the write of   *)
(* stores.json.                                                            *)
(*                                                                         *)
(* A detail URL https://grilld.com.au/restaurants/<slug> is identified by  *)
(* the rank of its slug in lexicographic order, a number in 1..MaxUrls.    *)
(* Python's None is the string None; every JSON scalar is a string.        *)
(***************************************************************************)
EXTENDS Integers, Sequences, FiniteSets, TLC

VARIABLES phase, store_urls, max_workers, tasks, completed_count,
          all_stores_data, stores_json, write_count, debug_files

vars == <<phase, store_urls, max_workers, tasks, completed_count,
          all_stores_data, stores_json, write_count, debug_files>>

\* Distinct detail pages the site has.
MaxUrls == 3
\* Anchors the listing page holds inside .c-body-rich-text.
MaxAnchors == 3

MAX_WORKERS == 10

None == "None"

(***************************************************************************)
(* Strings.  The strings of the model and what str.strip, str.lower and    *)
(* the comparison of two str do to them.                                   *)
(***************************************************************************)
Strip(s) ==
  CASE s = " Dine In " -> "Dine In"
    [] s = "Bondi " -> "Bondi"
    [] s = " " -> ""
    [] OTHER -> s

Lower(s) ==
  CASE s = "Bondi" -> "bondi"
    [] s = "Crown" -> "crown"
    [] OTHER -> s

\* The rank of a name in code-point order: upper case precedes lower case.
CodePointRank(s) ==
  CASE s = "" -> 0
    [] s = "Bondi" -> 1
    [] s = "Crown" -> 2
    [] s = "bondi" -> 3
    [] s = "crown" -> 4
    [] OTHER -> 5

StrLessEq(a, b) == CodePointRank(a) <= CodePointRank(b)

\* A falsy value: None or the empty string.
Falsy(s) == s = None \/ s = ""

(***************************************************************************)
(* get_store_urls                                                          *)
(***************************************************************************)
Slugs == 1..MaxUrls

\* The href values of the listing's anchors: a relative or an absolute link
\* to a detail page, a link to another section, or an empty href.
Hrefs ==
  [form : {"relative", "absolute"}, section : {"restaurants/"}, slug : Slugs]
    \cup {[form |-> "relative", section |-> "menu/", slug |-> 1],
          [form |-> "empty", section |-> "", slug |-> 1]}

\* href and 'restaurants/' in href
IsDetailHref(h) == h.form # "empty" /\ h.section = "restaurants/"

\* urljoin(BASE_URL, href): a relative and an absolute href of one page
\* resolve to the same URL.
urljoin(h) == h.slug

RECURSIVE SeqsUpTo(_, _)
SeqsUpTo(S, n) ==
  IF n = 0 THEN {<<>>}
  ELSE LET shorter == SeqsUpTo(S, n - 1)
       IN shorter \cup {Append(s, x) : s \in {t \in shorter : Len(t) = n - 1}, x \in S}

Listings == [status : {"ok", "error"}, anchors : SeqsUpTo(Hrefs, MaxAnchors)]

Min(S) == CHOOSE x \in S : \A y \in S : x <= y

\* sorted(list(urls)) of a set of URLs
RECURSIVE sorted(_)
sorted(S) == IF S = {} THEN <<>> ELSE <<Min(S)>> \o sorted(S \ {Min(S)})

RECURSIVE InsertAscending(_, _)
InsertAscending(s, x) ==
  IF s = <<>> THEN <<x>>
  ELSE IF x < Head(s) THEN <<x>> \o s
  ELSE <<Head(s)>> \o InsertAscending(Tail(s), x)

RECURSIVE sorted_list(_)
sorted_list(s) ==
  IF s = <<>> THEN <<>>
  ELSE InsertAscending(sorted_list(SubSeq(s, 1, Len(s) - 1)), s[Len(s)])

\* The URLs of the anchors that pass the filter, in document order.
MatchingUrls(anchors) ==
  LET RECURSIVE collect(_)
      collect(k) ==
        IF k > Len(anchors) THEN <<>>
        ELSE (IF IsDetailHref(anchors[k]) THEN <<urljoin(anchors[k])>> ELSE <<>>)
               \o collect(k + 1)
  IN collect(1)

\* A variant that collects the URLs in a list instead of a set.
get_store_urls_list(listing) ==
  IF listing.status # "ok" THEN <<>>
  ELSE sorted_list(MatchingUrls(listing.anchors))

get_store_urls(listing) ==
  IF listing.status # "ok" THEN <<>>
  ELSE LET found == MatchingUrls(listing.anchors)
           urls == {found[k] : k \in DOMAIN found}
       IN sorted(urls)

(***************************************************************************)
(* A detail page, as the three places scrape_store_page reads it from:     *)
(* the first script of type application/ld+json, the .chip-text elements   *)
(* and the script with id __NUXT_DATA__.                                   *)
(*                                                                         *)
(* ld.tag: "absent" (no such script), "empty" (a script with no text, so   *)
(* that its .string is None), "malformed" (text json.loads rejects),       *)
(* "json".  ld.shape: what the parsed document is, "object" or "array".    *)
(***************************************************************************)
NoAddress == [kind |-> "missing", street |-> None, locality |-> None, region |-> None]

NoHours == [kind |-> "missing", specs |-> <<>>]

LdTag(tag) ==
  [tag |-> tag, shape |-> "object", name |-> None, telephone |-> None,
   address |-> NoAddress, hours |-> NoHours]

LdObject(name, telephone, address, hours) ==
  [tag |-> "json", shape |-> "object", name |-> name, telephone |-> telephone,
   address |-> address, hours |-> hours]

LdArray == [LdTag("json") EXCEPT !.shape = "array"]

\* One entry of the __NUXT_DATA__ array: a dict with the keys the code reads
\* (a reference is an index into the array, -1 where the key is missing), or
\* a scalar. restaurant is the value of the key restaurant of the state
\* object: missing, a dict holding the reference restaurant, or a scalar.
Scalar(v) ==
  [t |-> "scalar", has_state |-> FALSE, state |-> -1,
   restaurant |-> [kind |-> "missing", ref |-> -1],
   latitude |-> -1, longitude |-> -1, description |-> -1,
   services |-> <<>>, value |-> v]

Dict == [Scalar("{}") EXCEPT !.t = "dict"]

NoNuxt == [tag |-> "absent", data |-> <<>>]

\* dereference(data_list, ref), lines 108-111
dereference(data_list, ref) ==
  IF 0 <= ref /\ ref < Len(data_list) THEN data_list[ref + 1] ELSE Scalar(None)

\* The value a dereferenced entry puts into the record.
JsonValue(entry) == entry.value

\* datetime.strptime(t, '%H:%M') succeeds: t is a dict [h, m] of a valid time.
IsTime(t) == t.kind = "HH:MM" /\ t.h \in 0..23 /\ t.m \in 0..59

\* strftime('%-I%p'): the 12-hour clock's hour without a leading zero, then
\* AM or PM; the minutes are not printed.
FormatTime(t) ==
  [hour |-> IF t.h % 12 = 0 THEN 12 ELSE t.h % 12,
   suffix |-> IF t.h < 12 THEN "AM" ELSE "PM"]

day_order == <<"Monday", "Tuesday", "Wednesday", "Thursday", "Friday", "Saturday", "Sunday">>

\* day_order.index(x['name']) if x['name'] in day_order else 99
DayKey(entry) ==
  IF \E k \in DOMAIN day_order : day_order[k] = entry.name
  THEN (CHOOSE k \in DOMAIN day_order : day_order[k] = entry.name) - 1
  ELSE 99

\* list.sort(key=...) on the pairs <<key, element>>: a stable sort,
\* ascending in the key.
RECURSIVE InsertPair(_, _)
InsertPair(s, p) ==
  IF s = <<>> THEN <<p>>
  ELSE IF Head(s)[1] <= p[1] THEN <<Head(s)>> \o InsertPair(Tail(s), p)
  ELSE <<p>> \o s

RECURSIVE StableSortPairs(_)
StableSortPairs(ps) ==
  IF ps = <<>> THEN <<>>
  ELSE InsertPair(StableSortPairs(SubSeq(ps, 1, Len(ps) - 1)), ps[Len(ps)])

Elements(ps) == [k \in DOMAIN ps |-> ps[k][2]]

\* Line 89
SortByDay(entries) ==
  Elements(StableSortPairs([k \in DOMAIN entries |-> <<DayKey(entries[k]), entries[k]>>]))

\* Lines 75-89: the specifications that parse, reformatted, sorted by day.
OpeningHours(specs) ==
  LET RECURSIVE collect(_)
      collect(k) ==
        IF k > Len(specs) THEN <<>>
        ELSE (IF IsTime(specs[k].opens) /\ IsTime(specs[k].closes)
              THEN <<[name |-> specs[k].dayOfWeek,
                      description |-> <<FormatTime(specs[k].opens),
                                        FormatTime(specs[k].closes)>>,
                      isClosed |-> FALSE]>>
              ELSE <<>>) \o collect(k + 1)
  IN SortByDay(collect(1))

\* Lines 66-72: the stripped non-empty parts, which ', '.join concatenates.
FullAddress(address) ==
  LET parts == <<address.street, address.locality, address.region>>
      stripped == [k \in DOMAIN parts |->
                     IF Falsy(parts[k]) THEN None ELSE Strip(parts[k])]
  IN SelectSeq(stripped, LAMBDA p : ~Falsy(p))

\* What a task ends with: a record, None, or an exception it raises.
ReturnNone == [kind |-> "none", data |-> <<>>, error |-> "", wrote |-> {}]

Return(data) == [kind |-> "record", data |-> <<data>>, error |-> "", wrote |-> {}]

Raise(error) == [kind |-> "raise", data |-> <<>>, error |-> error, wrote |-> {}]

\* A variant that saves the body of every page without the script.
MissingLdJsonSaved(url) == [ReturnNone EXCEPT !.wrote = {url}]

\* Lines 56-58: no ld+json script on the page.
MissingLdJson(url) == ReturnNone

\* Lines 91-98: the record built from the ld+json document.
LdRecord(url, ld) ==
  [name |-> ld.name,
   address |-> FullAddress(ld.address),
   phone |-> ld.telephone,
   opening_hours |-> OpeningHours(ld.hours.specs),
   url |-> url,
   description |-> None, services |-> <<>>, latitude |-> None, longitude |-> None]

\* Line 101: the stripped text of every chip.
ChipServices(chips) == [k \in DOMAIN chips |-> Strip(chips[k])]

\* Lines 113-118: the restaurant entry the state object refers to; a scalar
\* None where the walk ends early.
FindRestaurant(nuxt_data) ==
  LET holders == {k \in DOMAIN nuxt_data :
                    nuxt_data[k].t = "dict" /\ nuxt_data[k].has_state}
      state_obj == dereference(nuxt_data, nuxt_data[Min(holders)].state)
  IN IF holders = {} \/ state_obj.t # "dict" THEN Scalar(None)
     ELSE IF state_obj.restaurant.kind = "missing" THEN Scalar(None)
     ELSE dereference(nuxt_data, state_obj.restaurant.ref)

\* state_obj.get('restaurant', {}).get('restaurant') on a value that is no
\* dict: an AttributeError, which line 123 does not catch.
RestaurantIsScalar(nuxt_data) ==
  LET holders == {k \in DOMAIN nuxt_data :
                    nuxt_data[k].t = "dict" /\ nuxt_data[k].has_state}
      state_obj == dereference(nuxt_data, nuxt_data[Min(holders)].state)
  IN holders # {} /\ state_obj.t = "dict" /\ state_obj.restaurant.kind = "scalar"

\* A variant that also takes the services of the restaurant entry.
NuxtFieldsWithServices(data, restaurant_obj, nuxt_data) ==
  [data EXCEPT
     !.latitude = JsonValue(dereference(nuxt_data, restaurant_obj.latitude)),
     !.longitude = JsonValue(dereference(nuxt_data, restaurant_obj.longitude)),
     !.description = JsonValue(dereference(nuxt_data, restaurant_obj.description)),
     !.services = IF restaurant_obj.services # <<>> THEN restaurant_obj.services ELSE @]

\* Lines 120-122: the fields the restaurant entry sets.
NuxtFields(data, restaurant_obj, nuxt_data) ==
  [data EXCEPT
     !.latitude = JsonValue(dereference(nuxt_data, restaurant_obj.latitude)),
     !.longitude = JsonValue(dereference(nuxt_data, restaurant_obj.longitude)),
     !.description = JsonValue(dereference(nuxt_data, restaurant_obj.description))]

\* Lines 104-124: an absent script, a script without text (json.loads(None),
\* a TypeError) and text that does not parse leave the record as it is.
NuxtStep(data, nuxt) ==
  IF nuxt.tag # "json" THEN data
  ELSE LET restaurant_obj == FindRestaurant(nuxt.data)
       IN IF restaurant_obj.t = "dict"
          THEN NuxtFields(data, restaurant_obj, nuxt.data)
          ELSE data

scrape_store_page(url, page) ==
  IF page.status # "ok" THEN ReturnNone
  ELSE IF page.ld.tag = "absent" THEN MissingLdJson(url)
  ELSE IF page.ld.tag = "empty" THEN Raise("TypeError")
  ELSE IF page.ld.tag = "malformed" THEN ReturnNone
  ELSE IF page.ld.shape # "object" THEN Raise("AttributeError")
  ELSE IF page.ld.address.kind = "scalar" THEN Raise("AttributeError")
  ELSE IF page.ld.hours.kind = "null" THEN Raise("TypeError")
  ELSE IF page.ld.hours.kind = "object" THEN Raise("AttributeError")
  ELSE LET data == [LdRecord(url, page.ld) EXCEPT !.services = ChipServices(page.chips)]
       IN IF page.nuxt.tag = "json" /\ RestaurantIsScalar(page.nuxt.data)
          THEN Raise("AttributeError")
          ELSE Return(NuxtStep(data, page.nuxt))

(***************************************************************************)
(* The pages the site may serve.                                           *)
(***************************************************************************)
Names == {None, "", "Bondi", "bondi", "Crown"}

Time(h, m) == [kind |-> "HH:MM", h |-> h, m |-> m]

\* A value strptime rejects: a time out of range, or no string at all.
NoTime == [kind |-> "invalid", h |-> 0, m |-> 0]

Addresses ==
  {NoAddress,
   [kind |-> "object", street |-> "1 Main St", locality |-> "Bondi ", region |-> "NSW"],
   [kind |-> "object", street |-> None, locality |-> " ", region |-> "NSW"],
   [kind |-> "scalar", street |-> None, locality |-> None, region |-> None]}

HoursBlocks ==
  {NoHours,
   [kind |-> "null", specs |-> <<>>],
   [kind |-> "object", specs |-> <<>>],
   [kind |-> "list",
    specs |-> <<[dayOfWeek |-> "Tuesday", opens |-> Time(0, 0), closes |-> Time(12, 30)],
                [dayOfWeek |-> "Holiday", opens |-> Time(11, 0), closes |-> Time(21, 0)],
                [dayOfWeek |-> "Sunday", opens |-> NoTime, closes |-> Time(21, 0)],
                [dayOfWeek |-> "Monday", opens |-> Time(11, 0), closes |-> Time(21, 0)]>>]}

LdBlocks ==
  {LdTag("absent"), LdTag("empty"), LdTag("malformed"), LdArray}
    \cup {LdObject(n, t, a, h) :
            n \in Names, t \in {None, "0290000000"}, a \in Addresses, h \in HoursBlocks}

ChipLists == {<<>>, <<" Dine In ">>, <<"Takeaway", "Dine In">>}

\* [{"state": 1}, {"restaurant": {"restaurant": 2}}, {"latitude": 3, ...}, ...]
NuxtArray(restaurant, latitude, services) ==
  <<[Dict EXCEPT !.has_state = TRUE, !.state = 1],
    [Dict EXCEPT !.restaurant = restaurant],
    [Dict EXCEPT !.latitude = latitude, !.longitude = 4, !.description = 5,
                 !.services = services],
    Scalar("-33.89"), Scalar("151.27"), Scalar("Burgers by the beach")>>

NuxtBlocks ==
  {NoNuxt, [tag |-> "empty", data |-> <<>>], [tag |-> "malformed", data |-> <<>>],
   [tag |-> "json", data |-> <<Scalar("x")>>],
   [tag |-> "json", data |-> <<[Dict EXCEPT !.has_state = TRUE, !.state = 7]>>]}
    \cup {[tag |-> "json", data |-> NuxtArray(r, lat, sv)] :
            r \in {[kind |-> "dict", ref |-> 2], [kind |-> "missing", ref |-> -1],
                   [kind |-> "scalar", ref |-> -1]},
            lat \in {3, 9}, sv \in {<<>>, <<"Delivery">>}}

ErrorPage == [status |-> "error", ld |-> LdTag("absent"), chips |-> <<>>, nuxt |-> NoNuxt]

Pages ==
  {ErrorPage} \cup [status : {"ok"}, ld : LdBlocks, chips : ChipLists, nuxt : NuxtBlocks]

\* The pages of the runs of the whole program: a failed fetch, a page without
\* the script, a page with an empty script, and one page for each name.
NamedPage(name) ==
  [status |-> "ok", ld |-> LdObject(name, None, NoAddress, NoHours),
   chips |-> <<>>, nuxt |-> NoNuxt]

SitePages ==
  {ErrorPage, [ErrorPage EXCEPT !.status = "ok"],
   [ErrorPage EXCEPT !.status = "ok", !.ld = LdTag("empty")]}
    \cup {NamedPage(n) : n \in Names}

(***************************************************************************)
(* main                                                                    *)
(***************************************************************************)
\* The pool sizes a run is started with; the program's is MAX_WORKERS.
PoolSizes == {1, 2, MAX_WORKERS}

Pending == [kind |-> "pending", data |-> <<>>, error |-> "", wrote |-> {}]

Queued == [state |-> "queued", page |-> <<>>, result |-> Pending]

\* A variant without the guard.
AbortsNever(urls) == FALSE

\* Line 133: not store_urls
Aborts(urls) == urls = <<>>

\* A variant of the loop that ends when no finished future is waiting.
NoneReady(ts) == \A i \in DOMAIN ts : ts[i].state # "finished"

\* Line 146: as_completed has yielded every future.
LoopExhausted(ts) == \A i \in DOMAIN ts : ts[i].state = "collected"

\* A variant that keeps only the latest record.
CollectedLatest(all, result) ==
  IF result.kind = "record" THEN result.data ELSE all

\* Lines 150-151: a truthy result is appended.
Collected(all, result) ==
  IF result.kind = "record" THEN Append(all, result.data[1]) ELSE all

\* A variant that compares the names as they are.
NameKeyRaw(record) ==
  CodePointRank(IF Falsy(record.name) THEN "" ELSE record.name)

\* Line 157: (x.get('name') or '').lower()
NameKey(record) ==
  CodePointRank(Lower(IF Falsy(record.name) THEN "" ELSE record.name))

SortByName(records) ==
  Elements(StableSortPairs([k \in DOMAIN records |-> <<NameKey(records[k]), records[k]>>]))

Running(ts) == {i \in DOMAIN ts : ts[i].state = "running"}

AllDone(ts) == \A i \in DOMAIN ts : ts[i].state \in {"finished", "collected"}

Init ==
  /\ phase = "start"
  /\ store_urls = <<>>
  /\ max_workers = MAX_WORKERS
  /\ tasks = <<>>
  /\ completed_count = 0
  /\ all_stores_data = <<>>
  /\ stores_json = [state |-> "absent", data |-> <<>>]
  /\ write_count = 0
  /\ debug_files = {}

\* Lines 132-144: discovery, the guard, and the submission of one task for
\* each URL to a pool of k workers.
Discover ==
  /\ phase = "start"
  /\ \E listing \in Listings, k \in PoolSizes :
       LET urls == get_store_urls(listing)
       IN /\ store_urls' = urls
          /\ max_workers' = k
          /\ IF Aborts(urls)
             THEN /\ phase' = "aborted"
                  /\ tasks' = tasks
             ELSE /\ phase' = "collect"
                  /\ tasks' = [i \in DOMAIN urls |-> Queued]
  /\ UNCHANGED <<completed_count, all_stores_data, stores_json, write_count, debug_files>>

\* A worker takes the next task of the executor's queue.
StartTask(i) ==
  /\ phase \in {"collect", "raised", "shutdown"}
  /\ i \in DOMAIN tasks
  /\ tasks[i].state = "queued"
  /\ \A j \in 1..(i - 1) : tasks[j].state # "queued"
  /\ Cardinality(Running(tasks)) < max_workers
  /\ tasks' = [tasks EXCEPT ![i].state = "running"]
  /\ UNCHANGED <<phase, store_urls, max_workers, completed_count, all_stores_data,
                 stores_json, write_count, debug_files>>

\* The task fetches its page and runs scrape_store_page to its end.
FinishTask(i, pages) ==
  /\ i \in DOMAIN tasks
  /\ tasks[i].state = "running"
  /\ \E page \in pages :
       LET result == scrape_store_page(store_urls[i], page)
       IN /\ tasks' = [tasks EXCEPT ![i] =
                         [state |-> "finished", page |-> <<page>>, result |-> result]]
          /\ debug_files' = debug_files \cup result.wrote
  /\ UNCHANGED <<phase, store_urls, max_workers, completed_count, all_stores_data,
                 stores_json, write_count>>

\* Lines 146-154: one turn of the loop over as_completed; future.result()
\* raises what the task raised.
Collect(i) ==
  /\ phase = "collect"
  /\ i \in DOMAIN tasks
  /\ tasks[i].state = "finished"
  /\ completed_count' = completed_count + 1
  /\ tasks' = [tasks EXCEPT ![i].state = "collected"]
  /\ IF tasks[i].result.kind = "raise"
     THEN /\ phase' = "raised"
          /\ UNCHANGED all_stores_data
     ELSE /\ phase' = phase
          /\ all_stores_data' = Collected(all_stores_data, tasks[i].result)
  /\ UNCHANGED <<store_urls, max_workers, stores_json, write_count, debug_files>>

\* The loop ends.
LoopEnd ==
  /\ phase = "collect"
  /\ LoopExhausted(tasks)
  /\ phase' = "shutdown"
  /\ UNCHANGED <<store_urls, max_workers, tasks, completed_count, all_stores_data,
                 stores_json, write_count, debug_files>>

\* Line 139: the with block's exit waits for every task, then main goes on
\* or the exception leaves main.
ExecutorExit ==
  /\ phase \in {"shutdown", "raised"}
  /\ AllDone(tasks)
  /\ phase' = IF phase = "raised" THEN "crashed" ELSE "sort"
  /\ UNCHANGED <<store_urls, max_workers, tasks, completed_count, all_stores_data,
                 stores_json, write_count, debug_files>>

\* Line 157
Sort ==
  /\ phase = "sort"
  /\ all_stores_data' = SortByName(all_stores_data)
  /\ phase' = "write"
  /\ UNCHANGED <<store_urls, max_workers, tasks, completed_count, stores_json,
                 write_count, debug_files>>

\* Lines 164-169: the file is written, or an IOError is caught and reported.
Write ==
  /\ phase = "write"
  /\ \E ok \in BOOLEAN :
       stores_json' = IF ok THEN [state |-> "written", data |-> all_stores_data]
                      ELSE [state |-> "failed", data |-> <<>>]
  /\ write_count' = write_count + 1
  /\ phase' = "done"
  /\ UNCHANGED <<store_urls, max_workers, tasks, completed_count, all_stores_data,
                 debug_files>>

Next ==
  \/ Discover
  \/ \E i \in 1..MaxAnchors : StartTask(i)
  \/ \E i \in 1..MaxAnchors : FinishTask(i, SitePages)
  \/ \E i \in 1..MaxAnchors : Collect(i)
  \/ LoopEnd
  \/ ExecutorExit
  \/ Sort
  \/ Write

Spec == Init /\ [][Next]_vars

\* scrape_store_page alone: one task, for any URL, on any page.
InitExtract ==
  /\ phase = "collect"
  /\ store_urls \in {<<u>> : u \in Slugs}
  /\ max_workers = MAX_WORKERS
  /\ tasks = <<[Queued EXCEPT !.state = "running"]>>
  /\ completed_count = 0
  /\ all_stores_data = <<>>
  /\ stores_json = [state |-> "absent", data |-> <<>>]
  /\ write_count = 0
  /\ debug_files = {}

NextExtract == FinishTask(1, Pages)

SpecExtract == InitExtract /\ [][NextExtract]_vars

(***************************************************************************)
(* Properties                                                              *)
(***************************************************************************)
Done(i) == tasks[i].state \in {"finished", "collected"}

\* What scrape_store_page makes of the page task i fetched.
Extracted(i) == scrape_store_page(store_urls[i], tasks[i].page[1])

\* The records of the tasks, in the order the tasks were submitted.
SubmittedRecords ==
  LET RECURSIVE collect(_)
      collect(k) ==
        IF k > Len(tasks) THEN <<>>
        ELSE (IF Extracted(k).kind = "record" THEN Extracted(k).data ELSE <<>>)
               \o collect(k + 1)
  IN collect(1)

Range(s) == {s[k] : k \in DOMAIN s}

\* The tasks whose page has no ld+json script.
MissingBlock == {i \in DOMAIN tasks : Done(i) /\ tasks[i].page[1].status = "ok"
                                        /\ tasks[i].page[1].ld.tag = "absent"}

\* C1: a failure inside a task never leaves the task: every task that has
\* ended has ended with a record or with None, and no exception reaches main
\* through future.result().
C1_TaskFailureContained ==
  /\ \A i \in DOMAIN tasks : Done(i) => tasks[i].result.kind \in {"record", "none"}
  /\ phase \notin {"raised", "crashed"}

\* C2: every run over M URLs drains all M tasks: when main has ended, each
\* task's result has been consumed and the counter equals M.
C2_AllTasksDrained ==
  (phase \in {"done", "crashed"}) =>
    /\ completed_count = Len(store_urls)
    /\ \A i \in DOMAIN tasks : tasks[i].state = "collected"

\* C3: whatever the pool size and the order of completion, the records in
\* all_stores_data before the sort are exactly the records of the pages whose
\* extraction returned a record, each once.
C3_CollectedSetIndependentOfPool ==
  (phase = "sort") =>
    /\ Range(all_stores_data) = Range(SubmittedRecords)
    /\ Len(all_stores_data) = Len(SubmittedRecords)

C3_Witness ==
  /\ phase = "sort"
  /\ max_workers = 2
  /\ Len(tasks) = 3
  /\ Len(all_stores_data) = 2
  /\ all_stores_data # SubmittedRecords

\* C4: the output is the same for every order of completion: it is the sorted
\* sequence of the records taken in the order of submission.
C4_OutputIndependentOfCompletionOrder ==
  (phase \in {"write", "done"}) => all_stores_data = SortByName(SubmittedRecords)

NoDuplicates(s) == \A j, k \in DOMAIN s : j # k => s[j] # s[k]

Urls(records) == [k \in DOMAIN records |-> records[k].url]

\* C5: no two records share a url: discovery returns each URL once, one task
\* is submitted for each URL, and a task's record carries the task's URL.
C5_UrlsUnique ==
  /\ NoDuplicates(store_urls)
  /\ phase \notin {"start", "aborted"} => Len(tasks) = Len(store_urls)
  /\ \A i \in DOMAIN tasks :
       tasks[i].result.kind = "record" => tasks[i].result.data[1].url = store_urls[i]
  /\ NoDuplicates(Urls(all_stores_data))
  /\ NoDuplicates(Urls(stores_json.data))

C5_Witness ==
  /\ stores_json.state = "written"
  /\ Len(stores_json.data) = 3

\* C6: a run whose discovery yields no URL ends without a task and without
\* opening the output file.
C6_NoUrlsNoFetchNoWrite ==
  (phase # "start" /\ store_urls = <<>>) =>
    /\ phase = "aborted"
    /\ tasks = <<>>
    /\ write_count = 0
    /\ stores_json.state = "absent"

C6_Witness == phase = "aborted" /\ store_urls = <<>>

\* C7 as stated: once two pages of a run have failed for lack of the ld+json
\* script, exactly one debug file has been written.
C7_FirstMissingPageSaved ==
  Cardinality(MissingBlock) >= 2 => Cardinality(debug_files) = 1

\* C7 as amended: when two pages of a run fail for lack of the ld+json
\* script, neither writes a debug file; no run writes one.
C7_NoDebugWrite ==
  Cardinality(MissingBlock) >= 2 => debug_files = {}

C7_Witness ==
  /\ Cardinality(MissingBlock) >= 2
  /\ \A i \in MissingBlock : tasks[i].result.kind = "none"
  /\ phase = "done"

\* The services of the restaurant entry of __NUXT_DATA__, which the
\* specification's second strategy would take.
EmbeddedServices(page) ==
  IF page.nuxt.tag = "json" /\ FindRestaurant(page.nuxt.data).t = "dict"
  THEN FindRestaurant(page.nuxt.data).services
  ELSE <<>>

\* The fields the ld+json document decides.
LdFieldsKept(i) ==
  LET record == tasks[i].result.data[1]
      ld == tasks[i].page[1].ld
  IN /\ record.name = ld.name
     /\ record.phone = ld.telephone
     /\ record.address = FullAddress(ld.address)
     /\ record.opening_hours = OpeningHours(ld.hours.specs)
     /\ record.url = store_urls[i]

\* C8 as stated: a record's services are those of the embedded state when
\* that list is not empty, else the chips; the ld+json fields are kept.
C8_ServicesPreferEmbeddedState ==
  \A i \in DOMAIN tasks :
    tasks[i].result.kind = "record" =>
      /\ tasks[i].result.data[1].services =
           IF EmbeddedServices(tasks[i].page[1]) # <<>>
           THEN EmbeddedServices(tasks[i].page[1])
           ELSE ChipServices(tasks[i].page[1].chips)
      /\ LdFieldsKept(i)

\* C8 as amended: a record's services are always the stripped text of the
\* chips (empty when there is none), whatever the embedded state holds; the
\* embedded-state step changes latitude, longitude and description only.
C8_ServicesFromChips ==
  \A i \in DOMAIN tasks :
    tasks[i].result.kind = "record" =>
      /\ tasks[i].result.data[1].services = ChipServices(tasks[i].page[1].chips)
      /\ LdFieldsKept(i)

C8_Witness ==
  /\ tasks[1].result.kind = "record"
  /\ EmbeddedServices(tasks[1].page[1]) # <<>>
  /\ tasks[1].page[1].chips # <<>>
  /\ tasks[1].result.data[1].latitude # None
  /\ tasks[1].result.data[1].name # None

\* The name a record is compared by: the empty string when absent or empty.
ComparedName(record) == IF record.name \in {None, ""} THEN "" ELSE Lower(record.name)

\* C9: the array handed to the writer is in non-decreasing order of the
\* lower-cased name, a record without a name before every record with one,
\* and holds the collected records, no more and no fewer.
C9_SortedByLowerName ==
  (phase = "write") =>
    /\ \A j, k \in DOMAIN all_stores_data :
         j < k => /\ StrLessEq(ComparedName(all_stores_data[j]),
                               ComparedName(all_stores_data[k]))
                  /\ ~(ComparedName(all_stores_data[j]) # ""
                         /\ ComparedName(all_stores_data[k]) = "")
    /\ Range(all_stores_data) = Range(SubmittedRecords)
    /\ Len(all_stores_data) = Len(SubmittedRecords)

C9_Witness ==
  /\ phase = "write"
  /\ Len(all_stores_data) = 3
  /\ all_stores_data[1].name = None
  /\ all_stores_data[2].name = "bondi"
  /\ all_stores_data[3].name = "Crown"
  /\ all_stores_data # SubmittedRecords

\* C10: the output file is written at most once, only after every task has
\* ended and its result has been consumed, and a failed write leaves main
\* returning normally.
C10_WriteOnceAfterAllTasks ==
  /\ write_count <= 1
  /\ (phase \in {"write", "done"} \/ write_count > 0 \/ stores_json.state # "absent") =>
       \A i \in DOMAIN tasks : tasks[i].state = "collected"
  /\ stores_json.state = "failed" => phase = "done"

C10_Witness ==
  /\ phase = "done"
  /\ stores_json.state = "failed"
  /\ write_count = 1
  /\ Len(tasks) = 3

====
